---------------------------- MODULE Spec2Model ----------------------------
(***************************************************************************)
(* Team assignment: the constraint compiler of fullConstParser.py, the     *)
(* model construction of Solver.py and the CP-SAT engine's contract.       *)
(*                                                                         *)
(* Python values are tagged records [ty, n]; a rule node is a record with  *)
(* exactly the keys the JSON object has, so a missing key is a KeyError    *)
(* and dict.get falls back to its default.  Floating point weights are     *)
(* fixed-point numbers counted in 1/WeightDenominator.  Attribute values   *)
(* are booleans, integers and None (no fractional numbers, no strings).    *)
(***************************************************************************)
EXTENDS Integers, Sequences, FiniteSets, TLC

VARIABLES
    pc,              \* position in Solver.py's module-level script
    NUM_TEAMS,       \* Solver.py:4
    NUM_AGENTS,      \* Solver.py:4
    AGENTS_PER_TEAM, \* Solver.py:4
    AGENT_DATA,      \* Solver.py:4, agent -> dict
    PREFERENCES,     \* Solver.py:5, agent -> list of teams
    HardConst,       \* Solver.py:4, the rule tree payload
    regret_weight,   \* argument of add_soft_constraints_to_objective
    model,           \* the cp_model.CpModel: variables, constraints, objective
    result,          \* the dict parse_constraints returns
    error,           \* the exception that ended the script ("" for none)
    status,          \* what solver.Solve returned
    solution         \* the values the solver holds for the model's variables

vars == <<pc, NUM_TEAMS, NUM_AGENTS, AGENTS_PER_TEAM, AGENT_DATA, PREFERENCES,
          HardConst, regret_weight, model, result, error, status, solution>>

(***************************************************************************)
(* Bounds of the explored inputs.                                          *)
(***************************************************************************)
MaxTeams == 2
MaxCapacity == 2
MaxAgents == 4
MaxCount == 2
MaxRegretWeight == 1

(***************************************************************************)
(* Python values.                                                          *)
(***************************************************************************)
PyInt(n) == [ty |-> "int", n |-> n]
PyBool(b) == [ty |-> "bool", n |-> IF b THEN 1 ELSE 0]
PyTrue == PyBool(TRUE)
PyFalse == PyBool(FALSE)
PyNone == [ty |-> "NoneType", n |-> 0]
PyDict == [ty |-> "dict", n |-> 0]
PyList == [ty |-> "list", n |-> 0]

IsNone(v) == v.ty = "NoneType"
IsNumber(v) == v.ty \in {"int", "bool"}

\* a == b for None, bool and int operands: True == 1, None only equals None
PyEq(a, b) ==
    IF IsNone(a) \/ IsNone(b) THEN IsNone(a) /\ IsNone(b) ELSE a.n = b.n

\* str(v), as an f-string renders it
PyStr(v) ==
    CASE v.ty = "NoneType" -> "None"
      [] v.ty = "bool" -> (IF v.n = 1 THEN "True" ELSE "False")
      [] OTHER -> ToString(v.n)

\* d.get(key, default)
DictGet(d, key, default) == IF key \in DOMAIN d THEN d[key] ELSE default

Min2(a, b) == IF a <= b THEN a ELSE b
Max2(a, b) == IF a >= b THEN a ELSE b
Abs(n) == IF n < 0 THEN -n ELSE n

\* int(n / d): truncation toward zero
TruncDiv(n, d) == IF n >= 0 THEN n \div d ELSE -((-n) \div d)

\* _get_numeric_value
get_numeric_value(value) ==
    IF IsNone(value) THEN 0
    ELSE IF value.ty = "bool" THEN (IF value.n = 1 THEN 1 ELSE 0)
    ELSE Max2(0, Min2(1, value.n))

Agents == 0 .. (NUM_AGENTS - 1)
Teams == 0 .. (NUM_TEAMS - 1)

\* range(n) as a sequence
Range(n) == [i \in 1 .. Max2(n, 0) |-> i - 1]


(***************************************************************************)
(* The CpModel.  A variable is its index in model.vars; a linear           *)
(* expression is a sequence of terms coef * var; a constraint is linear    *)
(* (with the literals of OnlyEnforceIf), a boolean or, or a product.       *)
(***************************************************************************)
CpModel == [vars |-> <<>>, constraints |-> <<>>, objective |-> <<>>, maximize |-> FALSE]

Term(coef, var) == [coef |-> coef, var |-> var]
Linear(expr, rel, rhs, enforce) ==
    [type |-> "linear", expr |-> expr, rel |-> rel, rhs |-> rhs, enforce |-> enforce]
BoolOr(lits) == [type |-> "bool_or", lits |-> lits]
MultiplicationEquality(target, factors) ==
    [type |-> "mul_eq", target |-> target, factors |-> factors]

\* x[(a, t)]: the variables are created agent by agent, team by team
XVar(a, t) == a * NUM_TEAMS + t + 1

(***************************************************************************)
(* The compilation in progress: the model and the result dict, both        *)
(* mutated in place, and the exception being propagated ("" for none).     *)
(* Every step is skipped once an exception is raised.                      *)
(***************************************************************************)
Raise(cs, e) == IF cs.err # "" THEN cs ELSE [cs EXCEPT !.err = e]

\* model.NewBoolVar(name); the new variable is Len(cs.model.vars) afterwards
NewBoolVar(cs, name) ==
    IF cs.err # "" THEN cs ELSE [cs EXCEPT !.model.vars = Append(@, name)]

\* model.Add(...), model.AddBoolOr(...), model.AddMultiplicationEquality(...)
AddConstraint(cs, c) ==
    IF cs.err # "" THEN cs ELSE [cs EXCEPT !.model.constraints = Append(@, c)]

\* result['hard_constraints'].append(text): result must be the dict
AppendHard(cs, H, text) ==
    IF cs.err # "" THEN cs
    ELSE IF H.result.ty # "dict" THEN Raise(cs, "TypeError")
    ELSE [cs EXCEPT !.result.hard_constraints = Append(@, text)]

\* [a for a in range(num_agents) if agent_data[a].get(key) == value]
matching_agents(rule, H) ==
    SelectSeq(Range(H.num_agents.n),
              LAMBDA a : PyEq(DictGet(AGENT_DATA[a], rule.key, PyNone), rule.value))

\* sum(x[(a, team_idx)] for a in matching_agents)
count_expr(rule, H, team_idx) ==
    LET m == matching_agents(rule, H)
    IN  [i \in 1 .. Len(m) |-> Term(1, XVar(m[i], team_idx))]

\* sum(x[(a, team_idx)] * _get_numeric_value(agent_data[a].get(key, 0)) ...)
sum_expr(key, H, team_idx) ==
    [i \in 1 .. Max2(H.num_agents.n, 0) |->
        Term(get_numeric_value(DictGet(AGENT_DATA[i - 1], key, PyInt(0))),
             XVar(i - 1, team_idx))]

\* range(num_agents) and agent_data[a] need an int and the list of dicts
AgentArgsOk(H) == H.num_agents.ty = "int" /\ H.agent_data.ty = "list"

\* an includes compiler that forgets the upper bound
add_includes_constraint_min_only(rule, H, team_idx, cs) ==
    IF cs.err # "" THEN cs
    ELSE IF ~({"key", "value"} \subseteq DOMAIN rule) THEN Raise(cs, "KeyError")
    ELSE IF ~AgentArgsOk(H) THEN Raise(cs, "TypeError")
    ELSE
    LET min_count == DictGet(rule, "min", PyInt(0))
        expr == count_expr(rule, H, team_idx)
    IN  IF IsNone(min_count) THEN cs
        ELSE AppendHard(AddConstraint(cs, Linear(expr, ">=", min_count.n, <<>>)), H,
                 "Team " \o ToString(team_idx) \o ": at least " \o PyStr(min_count)
                 \o " with " \o rule.key \o "=" \o PyStr(rule.value))

\* _add_includes_constraint
add_includes_constraint(rule, H, team_idx, cs) ==
    IF cs.err # "" THEN cs
    ELSE IF ~({"key", "value"} \subseteq DOMAIN rule) THEN Raise(cs, "KeyError")
    ELSE IF ~AgentArgsOk(H) THEN Raise(cs, "TypeError")
    ELSE
    LET min_count == DictGet(rule, "min", PyInt(0))
        max_count == DictGet(rule, "max", H.num_agents)
        expr == count_expr(rule, H, team_idx)
        c1 == IF IsNone(min_count) THEN cs
              ELSE AppendHard(AddConstraint(cs, Linear(expr, ">=", min_count.n, <<>>)), H,
                       "Team " \o ToString(team_idx) \o ": at least " \o PyStr(min_count)
                       \o " with " \o rule.key \o "=" \o PyStr(rule.value))
        c2 == IF IsNone(max_count) THEN c1
              ELSE AppendHard(AddConstraint(c1, Linear(expr, "<=", max_count.n, <<>>)), H,
                       "Team " \o ToString(team_idx) \o ": at most " \o PyStr(max_count)
                       \o " with " \o rule.key \o "=" \o PyStr(rule.value))
    IN  c2

\* _add_range_constraint
add_range_constraint(rule, H, team_idx, cs) ==
    IF cs.err # "" THEN cs
    ELSE IF ~({"key", "min", "max"} \subseteq DOMAIN rule) THEN Raise(cs, "KeyError")
    ELSE IF ~AgentArgsOk(H) \/ IsNone(rule.min) THEN Raise(cs, "TypeError")
    ELSE
    LET expr == sum_expr(rule.key, H, team_idx)
        c1 == AddConstraint(cs, Linear(expr, ">=", rule.min.n, <<>>))
    IN  IF IsNone(rule.max) THEN Raise(c1, "TypeError")
        ELSE AppendHard(AddConstraint(c1, Linear(expr, "<=", rule.max.n, <<>>)), H,
                 "Team " \o ToString(team_idx) \o ": sum of " \o rule.key \o " in ["
                 \o PyStr(rule.min) \o ", " \o PyStr(rule.max) \o "]")

\* _add_equals_constraint
add_equals_constraint(rule, H, team_idx, cs) ==
    IF cs.err # "" THEN cs
    ELSE IF ~({"key", "value"} \subseteq DOMAIN rule) THEN Raise(cs, "KeyError")
    ELSE IF ~AgentArgsOk(H) \/ IsNone(rule.value) THEN Raise(cs, "TypeError")
    ELSE AppendHard(AddConstraint(cs,
                 Linear(sum_expr(rule.key, H, team_idx), "==", rule.value.n, <<>>)), H,
             "Team " \o ToString(team_idx) \o ": sum of " \o rule.key \o " == "
             \o PyStr(rule.value))

\* regex.search(s) for a pattern without metacharacters: pattern occurs in s
regex_search(pattern, s) ==
    \/ pattern = ""
    \/ \E i \in 1 .. (Len(s) - Len(pattern) + 1) :
           SubSeq(s, i, i + Len(pattern) - 1) = pattern

\* str(agent_data[a].get(key, ""))
StrOfAttribute(a, key) ==
    IF key \in DOMAIN AGENT_DATA[a] THEN PyStr(AGENT_DATA[a][key]) ELSE ""

\* _add_regex_constraint
add_regex_constraint(rule, H, team_idx, cs) ==
    IF cs.err # "" THEN cs
    ELSE IF ~({"key", "pattern"} \subseteq DOMAIN rule) THEN Raise(cs, "KeyError")
    ELSE IF ~AgentArgsOk(H) THEN Raise(cs, "TypeError")
    ELSE
    LET m == SelectSeq(Range(H.num_agents.n),
                       LAMBDA a : regex_search(rule.pattern, StrOfAttribute(a, rule.key)))
    IN  IF m = <<>> THEN Raise(cs, "ValueError")
        ELSE AppendHard(AddConstraint(cs,
                     BoolOr([i \in 1 .. Len(m) |-> XVar(m[i], team_idx)])), H,
                 "team " \o ToString(team_idx) \o ": at least one agent matches regex '"
                 \o rule.pattern \o "' for " \o rule.key)

\* a conditional includes compiler that forgets OnlyEnforceIf
add_includes_constraint_unconditional(rule, H, team_idx, indicator, cs) ==
    IF cs.err # "" THEN cs
    ELSE IF ~({"key", "value"} \subseteq DOMAIN rule) THEN Raise(cs, "KeyError")
    ELSE IF ~AgentArgsOk(H) THEN Raise(cs, "TypeError")
    ELSE
    LET min_count == DictGet(rule, "min", PyInt(0))
        max_count == DictGet(rule, "max", H.num_agents)
        expr == count_expr(rule, H, team_idx)
        c1 == IF IsNone(min_count) THEN cs
              ELSE AddConstraint(cs, Linear(expr, ">=", min_count.n, <<>>))
    IN  IF IsNone(max_count) THEN c1
        ELSE AddConstraint(c1, Linear(expr, "<=", max_count.n, <<>>))

\* _add_includes_constraint_with_indicator
add_includes_constraint_with_indicator(rule, H, team_idx, indicator, cs) ==
    IF cs.err # "" THEN cs
    ELSE IF ~({"key", "value"} \subseteq DOMAIN rule) THEN Raise(cs, "KeyError")
    ELSE IF ~AgentArgsOk(H) THEN Raise(cs, "TypeError")
    ELSE
    LET min_count == DictGet(rule, "min", PyInt(0))
        max_count == DictGet(rule, "max", H.num_agents)
        expr == count_expr(rule, H, team_idx)
        c1 == IF IsNone(min_count) THEN cs
              ELSE AddConstraint(cs, Linear(expr, ">=", min_count.n, <<indicator>>))
    IN  IF IsNone(max_count) THEN c1
        ELSE AddConstraint(c1, Linear(expr, "<=", max_count.n, <<indicator>>))

\* _add_range_constraint_with_indicator
add_range_constraint_with_indicator(rule, H, team_idx, indicator, cs) ==
    IF cs.err # "" THEN cs
    ELSE IF ~({"key", "min", "max"} \subseteq DOMAIN rule) THEN Raise(cs, "KeyError")
    ELSE IF ~AgentArgsOk(H) \/ IsNone(rule.min) THEN Raise(cs, "TypeError")
    ELSE
    LET expr == sum_expr(rule.key, H, team_idx)
        c1 == AddConstraint(cs, Linear(expr, ">=", rule.min.n, <<indicator>>))
    IN  IF IsNone(rule.max) THEN Raise(c1, "TypeError")
        ELSE AddConstraint(c1, Linear(expr, "<=", rule.max.n, <<indicator>>))

\* _add_equals_constraint_with_indicator
add_equals_constraint_with_indicator(rule, H, team_idx, indicator, cs) ==
    IF cs.err # "" THEN cs
    ELSE IF ~({"key", "value"} \subseteq DOMAIN rule) THEN Raise(cs, "KeyError")
    ELSE IF ~AgentArgsOk(H) \/ IsNone(rule.value) THEN Raise(cs, "TypeError")
    ELSE AddConstraint(cs,
             Linear(sum_expr(rule.key, H, team_idx), "==", rule.value.n, <<indicator>>))

(***************************************************************************)
(* Positional binding.  args are the values a call passes after            *)
(* (node, model, x); the callee's parameters take them in order and        *)
(* team_idx takes its default None when the call passes too few.           *)
(***************************************************************************)
\* def _parse_constraint(constraint, model, x, preferences, agent_data,
\*                       num_agents, num_teams, result, team_idx=None)
BindParseConstraint(args) ==
    [preferences |-> args[1], agent_data |-> args[2], num_agents |-> args[3],
     num_teams |-> args[4], result |-> args[5],
     team_idx |-> IF Len(args) >= 6 THEN args[6] ELSE PyNone]

\* def _parse_hard_constraint(rule, model, x, agent_data, num_agents, num_teams,
\*                            result, team_idx=None), and _parse_logical_constraint
BindRuleParser(args) ==
    [agent_data |-> args[1], num_agents |-> args[2], num_teams |-> args[3],
     result |-> args[4],
     team_idx |-> IF Len(args) >= 5 THEN args[5] ELSE PyNone]

\* teams = [team_idx] if team_idx is not None else range(num_teams)
TeamsTypeOk(H) ==
    IF IsNone(H.team_idx) THEN H.num_teams.ty = "int" ELSE H.team_idx.ty = "int"
TeamsOf(H) == IF IsNone(H.team_idx) THEN Range(H.num_teams.n) ELSE <<H.team_idx.n>>

\* the body of _parse_hard_constraint's loop for one team
HardForTeam(rule, H, t, cs) ==
    CASE rule.op = "includes" -> add_includes_constraint(rule, H, t, cs)
      [] rule.op = "range" -> add_range_constraint(rule, H, t, cs)
      [] rule.op = "equals" -> add_equals_constraint(rule, H, t, cs)
      [] rule.op = "regex" -> add_regex_constraint(rule, H, t, cs)
      [] OTHER -> Raise(cs, "ValueError")

RECURSIVE HardTeams(_, _, _, _, _)
\* for t in teams: ... of _parse_hard_constraint, from the i-th team on
HardTeams(rule, H, teams, i, cs) ==
    IF i > Len(teams) \/ cs.err # "" THEN cs
    ELSE HardTeams(rule, H, teams, i + 1, HardForTeam(rule, H, teams[i], cs))

\* _parse_constraint_with_indicator: a hard includes, range or equals child is
\* compiled on the indicator; any other child adds nothing and raises nothing
parse_constraint_with_indicator(constraint, H, team_idx, indicator, cs) ==
    IF cs.err # "" THEN cs
    ELSE
    LET kind == DictGet(constraint, "kind", "None")
    IN  IF kind = "hard"
        THEN IF "rule" \notin DOMAIN constraint THEN Raise(cs, "KeyError")
             ELSE IF "op" \notin DOMAIN constraint.rule THEN Raise(cs, "KeyError")
             ELSE LET rule == constraint.rule
                  IN  CASE rule.op = "includes" ->
                               add_includes_constraint_with_indicator(rule, H, team_idx, indicator, cs)
                        [] rule.op = "range" ->
                               add_range_constraint_with_indicator(rule, H, team_idx, indicator, cs)
                        [] rule.op = "equals" ->
                               add_equals_constraint_with_indicator(rule, H, team_idx, indicator, cs)
                        [] OTHER -> cs
        ELSE cs

RECURSIVE OrChildren(_, _, _, _, _, _)
\* for sub_rule in rule["rules"] of the or branch, from the j-th child on;
\* returns the compilation and the indicators list
OrChildren(rules, j, H, t, indicators, cs) ==
    IF j > Len(rules) \/ cs.err # "" THEN [cs |-> cs, indicators |-> indicators]
    ELSE LET c1 == NewBoolVar(cs, "or_indicator_t" \o ToString(t) \o "_"
                                  \o ToString(Len(indicators)))
             indicator == Len(c1.model.vars)
         IN  OrChildren(rules, j + 1, H, t, Append(indicators, indicator),
                 parse_constraint_with_indicator(rules[j], H, t, indicator, c1))

\* the or branch for one team
OrForTeam(rule, H, t, cs) ==
    IF "rules" \notin DOMAIN rule THEN Raise(cs, "KeyError")
    ELSE LET r == OrChildren(rule.rules, 1, H, t, <<>>, cs)
         IN  AppendHard(AddConstraint(r.cs, BoolOr(r.indicators)), H,
                        "OR constraint for team " \o ToString(t))

\* the not branch for one team
NotForTeam(rule, H, t, cs) ==
    LET c1 == NewBoolVar(cs, "not_indicator_t" \o ToString(t))
        indicator == Len(c1.model.vars)
        c2 == IF "rule" \notin DOMAIN rule THEN Raise(c1, "KeyError")
              ELSE parse_constraint_with_indicator(rule.rule, H, t, indicator, c1)
    IN  AppendHard(AddConstraint(c2, Linear(<<Term(1, indicator)>>, "==", 0, <<>>)), H,
                   "NOT constraint for team " \o ToString(t))

RECURSIVE LogicalTeams(_, _, _, _, _)
\* for t in teams: ... of the or and not branches, from the i-th team on
LogicalTeams(rule, H, teams, i, cs) ==
    IF i > Len(teams) \/ cs.err # "" THEN cs
    ELSE LogicalTeams(rule, H, teams, i + 1,
             IF rule.op = "or" THEN OrForTeam(rule, H, teams[i], cs)
             ELSE NotForTeam(rule, H, teams[i], cs))

\* the arguments the and branch passes to _parse_constraint for each child:
\* (sub_rule, model, x, agent_data, num_agents, num_teams, result, team_idx)
AndCallArgs(H) == <<H.agent_data, H.num_agents, H.num_teams, H.result, H.team_idx>>

RECURSIVE parse_constraint(_, _, _)
RECURSIVE parse_hard_constraint(_, _, _)
RECURSIVE parse_logical_constraint(_, _, _)
RECURSIVE AndChildren(_, _, _, _)

\* for sub_rule in rule["rules"] of the and branch, from the j-th child on
AndChildren(rules, j, H, cs) ==
    IF j > Len(rules) \/ cs.err # "" THEN cs
    ELSE AndChildren(rules, j + 1, H,
             parse_constraint(rules[j], BindParseConstraint(AndCallArgs(H)), cs))

\* _parse_logical_constraint
parse_logical_constraint(rule, H, cs) ==
    IF cs.err # "" THEN cs
    ELSE IF "op" \notin DOMAIN rule THEN Raise(cs, "KeyError")
    ELSE IF rule.op = "and"
    THEN IF "rules" \notin DOMAIN rule THEN Raise(cs, "KeyError")
         ELSE AndChildren(rule.rules, 1, H, cs)
    ELSE IF rule.op \in {"or", "not"}
    THEN IF ~TeamsTypeOk(H) THEN Raise(cs, "TypeError")
         ELSE LogicalTeams(rule, H, TeamsOf(H), 1, cs)
    ELSE Raise(cs, "ValueError")

\* _parse_hard_constraint
parse_hard_constraint(rule, H, cs) ==
    IF cs.err # "" THEN cs
    ELSE IF "op" \notin DOMAIN rule THEN Raise(cs, "KeyError")
    ELSE IF rule.op \in {"and", "or", "not"}
    THEN parse_logical_constraint(rule,
             BindRuleParser(<<H.agent_data, H.num_agents, H.num_teams, H.result, H.team_idx>>), cs)
    ELSE IF ~TeamsTypeOk(H) THEN Raise(cs, "TypeError")
    ELSE HardTeams(rule, H, TeamsOf(H), 1, cs)

\* result['soft_constraints'].append({...})
AppendSoft(constraint, P, cs) ==
    IF P.result.ty # "dict" THEN Raise(cs, "TypeError")
    ELSE IF ~({"key", "mode"} \subseteq DOMAIN constraint) THEN Raise(cs, "KeyError")
    ELSE [cs EXCEPT !.result.soft_constraints =
              Append(@, [constraint |-> constraint, key |-> constraint.key,
                         mode |-> constraint.mode,
                         weight |-> DictGet(constraint, "weight", 10 * 1000)])]

\* _parse_constraint
parse_constraint(constraint, P, cs) ==
    IF cs.err # "" THEN cs
    ELSE
    LET kind == DictGet(constraint, "kind", "None")
        args == <<P.agent_data, P.num_agents, P.num_teams, P.result, P.team_idx>>
    IN  CASE kind = "hard" ->
                 IF "rule" \notin DOMAIN constraint THEN Raise(cs, "KeyError")
                 ELSE parse_hard_constraint(constraint.rule, BindRuleParser(args), cs)
          [] kind = "soft" -> AppendSoft(constraint, P, cs)
          [] kind = "logical" ->
                 IF "rule" \notin DOMAIN constraint THEN Raise(cs, "KeyError")
                 ELSE parse_logical_constraint(constraint.rule, BindRuleParser(args), cs)
          [] OTHER -> Raise(cs, "ValueError")

\* parse_constraints: the result dict is created empty, the model is the caller's
parse_constraints(data, m) ==
    parse_constraint(data,
        BindParseConstraint(<<PyList, PyList, PyInt(NUM_AGENTS), PyInt(NUM_TEAMS), PyDict>>),
        [model |-> m, result |-> [hard_constraints |-> <<>>, soft_constraints |-> <<>>],
         err |-> ""])

(***************************************************************************)
(* Solver.py: the assignment variables and the two structural constraints. *)
(***************************************************************************)
\* model.Add(sum(x[(a, t)] for t in range(NUM_TEAMS)) == 1)
AgentConstraint(a) ==
    Linear([i \in 1 .. NUM_TEAMS |-> Term(1, XVar(a, i - 1))], "==", 1, <<>>)

\* a team-size constraint that only caps the team
TeamConstraintAtMost(t) ==
    Linear([i \in 1 .. NUM_AGENTS |-> Term(1, XVar(i - 1, t))], "<=", AGENTS_PER_TEAM, <<>>)

\* model.Add(sum(x[(a, t)] for a in range(NUM_AGENTS)) == AGENTS_PER_TEAM)
TeamConstraint(t) ==
    Linear([i \in 1 .. NUM_AGENTS |-> Term(1, XVar(i - 1, t))], "==", AGENTS_PER_TEAM, <<>>)

\* the model after Solver.py lines 28-43
StructuralModel ==
    [CpModel EXCEPT
        !.vars = [i \in 1 .. NUM_AGENTS * NUM_TEAMS |->
                     "a" \o ToString((i - 1) \div NUM_TEAMS) \o "_t"
                     \o ToString((i - 1) % NUM_TEAMS)],
        !.constraints = [i \in 1 .. NUM_AGENTS |-> AgentConstraint(i - 1)]
                        \o [i \in 1 .. NUM_TEAMS |-> TeamConstraint(i - 1)]]

(***************************************************************************)
(* add_soft_constraints_to_objective.                                      *)
(***************************************************************************)
\* the rank an agent gives a team when the team is not in its list
UnlistedRegret == NUM_TEAMS

\* regret.get((a, t), num_teams): the last position of t in preferences[a]
Regret(a, t) ==
    LET at == {i \in 1 .. Len(PREFERENCES[a]) : PREFERENCES[a][i] = t}
    IN  IF at = {} THEN UnlistedRegret
        ELSE (CHOOSE i \in at : \A j \in at : j <= i) - 1

\* a regret term that rewards a high rank number instead of penalising it
RegretTermRewarding(rw, a, t) == Term(rw * Regret(a, t), XVar(a, t))

\* -regret_weight * regret.get((a, t), num_teams) * x[(a, t)]
RegretTerm(rw, a, t) == Term(-rw * Regret(a, t), XVar(a, t))

\* regret_terms, for a in range(num_agents) for t in range(num_teams)
RegretTerms(rw) ==
    [i \in 1 .. NUM_AGENTS * NUM_TEAMS |->
        RegretTerm(rw, (i - 1) \div NUM_TEAMS, (i - 1) % NUM_TEAMS)]

\* the pairs (a1, a2), a1 < a2, in the order of the two inner loops
AgentPairs ==
    SelectSeq([i \in 1 .. NUM_AGENTS * NUM_AGENTS |->
                  <<(i - 1) \div NUM_AGENTS, (i - 1) % NUM_AGENTS>>],
              LAMBDA p : p[1] < p[2])

\* the fixed integer factor of the pairwise coefficients
Scale == 1000

\* weights are counted in 1/WeightDenominator; 1.0 is WeightDenominator
WeightDenominator == 10 * 1000

\* int(diff * weight * 1000)
PairCoefficient(soft, a1, a2) ==
    LET val1 == get_numeric_value(DictGet(AGENT_DATA[a1], soft.key, PyInt(0)))
        val2 == get_numeric_value(DictGet(AGENT_DATA[a2], soft.key, PyInt(0)))
        diff == Abs(val1 - val2)
    IN  TruncDiv(diff * soft.weight * Scale, WeightDenominator)

\* the objective's sign for a pair that shares a team
SignedCoefficient(soft, a1, a2) ==
    IF soft.mode = "attractive" THEN -PairCoefficient(soft, a1, a2)
    ELSE PairCoefficient(soft, a1, a2)

\* the loops over t, a1, a2 for one soft rule: one new variable both_in_team,
\* one product constraint and one objective term per team and pair
AddSoftRule(m, soft) ==
    LET np == Len(AgentPairs)
        base == Len(m.vars)
        TeamAt(k) == (k - 1) \div np
        PairAt(k) == AgentPairs[((k - 1) % np) + 1]
        n == IF np = 0 THEN 0 ELSE NUM_TEAMS * np
    IN  [m EXCEPT
            !.vars = @ \o [k \in 1 .. n |->
                "both_" \o ToString(PairAt(k)[1]) \o "_" \o ToString(PairAt(k)[2])
                \o "_t" \o ToString(TeamAt(k))],
            !.constraints = @ \o [k \in 1 .. n |->
                MultiplicationEquality(base + k,
                    <<XVar(PairAt(k)[1], TeamAt(k)), XVar(PairAt(k)[2], TeamAt(k))>>)],
            !.objective = @ \o [k \in 1 .. n |->
                Term(SignedCoefficient(soft, PairAt(k)[1], PairAt(k)[2]), base + k)]]

RECURSIVE AddSoftRules(_, _, _)
\* for soft in soft_constraints, from the i-th on
AddSoftRules(m, soft_constraints, i) ==
    IF i > Len(soft_constraints) THEN m
    ELSE AddSoftRules(AddSoftRule(m, soft_constraints[i]), soft_constraints, i + 1)

\* add_soft_constraints_to_objective
add_soft_constraints_to_objective(m, soft_constraints, rw) ==
    LET m1 == AddSoftRules([m EXCEPT !.objective = RegretTerms(rw)], soft_constraints, 1)
    IN  IF m1.objective # <<>> THEN [m1 EXCEPT !.maximize = TRUE]
        ELSE [m EXCEPT !.vars = m1.vars, !.constraints = m1.constraints]

(***************************************************************************)
(* The CP-SAT engine: which values of the variables satisfy a model, and   *)
(* which of them maximise its objective.  val maps variables to 0 or 1.    *)
(* The search is staged: each agent's row of x against the constraints     *)
(* that read only that row, then the whole of x against the unconditional  *)
(* constraints over x, then the indicator variables; a variable defined by *)
(* a product takes the product's value.                                    *)
(***************************************************************************)
RECURSIVE SumTerms(_, _, _)
SumTerms(expr, val, i) ==
    IF i > Len(expr) THEN 0
    ELSE expr[i].coef * val[expr[i].var] + SumTerms(expr, val, i + 1)

ExprValue(expr, val) == SumTerms(expr, val, 1)

Compare(v, rel, rhs) ==
    CASE rel = "==" -> v = rhs
      [] rel = ">=" -> v >= rhs
      [] rel = "<=" -> v <= rhs

\* whether val satisfies constraint c
Holds(c, val) ==
    CASE c.type = "linear" ->
             (\A i \in 1 .. Len(c.enforce) : val[c.enforce[i]] = 1)
                 => Compare(ExprValue(c.expr, val), c.rel, c.rhs)
      [] c.type = "bool_or" -> \E i \in 1 .. Len(c.lits) : val[c.lits[i]] = 1
      [] c.type = "mul_eq" ->
             val[c.target] = val[c.factors[1]] * val[c.factors[2]]

\* the variables a constraint reads
ConstraintVars(c) ==
    CASE c.type = "linear" ->
             {c.expr[i].var : i \in 1 .. Len(c.expr)}
                 \cup {c.enforce[i] : i \in 1 .. Len(c.enforce)}
      [] c.type = "bool_or" -> {c.lits[i] : i \in 1 .. Len(c.lits)}
      [] c.type = "mul_eq" -> {c.target, c.factors[1], c.factors[2]}

XVars == 1 .. NUM_AGENTS * NUM_TEAMS
RowVars(a) == {XVar(a, t) : t \in Teams}

\* constraints over one agent's row; constraints over x alone; the others
IsRowConstraint(c, a) == ConstraintVars(c) \subseteq RowVars(a)
IsXConstraint(c) == ConstraintVars(c) \subseteq XVars

RowChoices(m, a) ==
    {r \in [RowVars(a) -> {0, 1}] :
        \A i \in 1 .. Len(m.constraints) :
            IsRowConstraint(m.constraints[i], a) => Holds(m.constraints[i], r)}

RECURSIVE RowTuples(_, _)
\* the choices of rows for agents 0 .. n-1, as sequences of rows
RowTuples(m, n) ==
    IF n = 0 THEN {<<>>}
    ELSE {Append(s, r) : s \in RowTuples(m, n - 1), r \in RowChoices(m, n - 1)}

\* values of x that satisfy every unconditional constraint over x
FeasibleX(m) ==
    LET xcons == SelectSeq(m.constraints, IsXConstraint)
    IN  {xv \in {[i \in XVars |-> s[((i - 1) \div NUM_TEAMS) + 1][i]] :
                    s \in RowTuples(m, NUM_AGENTS)} :
            \A i \in 1 .. Len(xcons) : Holds(xcons[i], xv)}

\* the variables beyond x that a product defines, and those left free
DefinedVars(m) ==
    {m.constraints[i].target :
        i \in {j \in 1 .. Len(m.constraints) : m.constraints[j].type = "mul_eq"}}
FreeVars(m) == ((1 .. Len(m.vars)) \ XVars) \ DefinedVars(m)

\* the value of a product-defined variable under xv
DefinedValue(m, v, xv) ==
    LET c == m.constraints[CHOOSE j \in 1 .. Len(m.constraints) :
                 m.constraints[j].type = "mul_eq" /\ m.constraints[j].target = v]
    IN  xv[c.factors[1]] * xv[c.factors[2]]

\* x and the free variables extended to all variables (as a tuple of values)
Complete(m, xv, free) ==
    LET freev == DOMAIN free
    IN  [v \in 1 .. Len(m.vars) |->
            IF v \in XVars THEN xv[v]
            ELSE IF v \in freev THEN free[v]
            ELSE DefinedValue(m, v, xv)] \o <<>>

\* the values of x that extend to a solution of the model
Accepted(m) ==
    LET others == SelectSeq(m.constraints, LAMBDA c : ~IsXConstraint(c))
        freev == FreeVars(m)
    IN  {xv \in FeasibleX(m) :
            \E free \in [freev -> {0, 1}] :
                LET val == Complete(m, xv, free)
                IN  \A i \in 1 .. Len(others) : Holds(others[i], val)}

\* the objective's value at xv (its terms read x and product-defined variables)
ObjectiveValue(m, xv) ==
    ExprValue(m.objective, Complete(m, xv, [v \in FreeVars(m) |-> 0]))

\* the accepted values of x no other accepted value beats
Optimal(m) ==
    LET valued == {<<xv, ObjectiveValue(m, xv)>> : xv \in Accepted(m)}
    IN  {p[1] : p \in {q \in valued : \A r \in valued : r[2] <= q[2]}}

(***************************************************************************)
(* Rule tree payloads.                                                     *)
(***************************************************************************)
Hard(rule) == [kind |-> "hard", rule |-> rule]
Logical(rule) == [kind |-> "logical", rule |-> rule]
Soft(mode, weight) ==
    [kind |-> "soft", key |-> "attributes", mode |-> mode, weight |-> weight]
And(rules) == [op |-> "and", rules |-> rules]
Or(rules) == [op |-> "or", rules |-> rules]
Not(rule) == [op |-> "not", rule |-> rule]

Includes(value, lo, hi) ==
    [op |-> "includes", key |-> "attributes", value |-> value,
     min |-> PyInt(lo), max |-> PyInt(hi)]
IncludesMin(value, lo) ==
    [op |-> "includes", key |-> "attributes", value |-> value, min |-> PyInt(lo)]
IncludesMax(value, hi) ==
    [op |-> "includes", key |-> "attributes", value |-> value, max |-> PyInt(hi)]
RangeRule(lo, hi) ==
    [op |-> "range", key |-> "attributes", min |-> PyInt(lo), max |-> PyInt(hi)]
EqualsRule(value) == [op |-> "equals", key |-> "attributes", value |-> value]
RegexRule(pattern) == [op |-> "regex", key |-> "attributes", pattern |-> pattern]

\* nodes no branch of the compiler knows, and a node without a required key
UnknownOp == [op |-> "contains", key |-> "attributes", value |-> PyTrue]
UnknownKind == [kind |-> "firm", rule |-> Includes(PyTrue, 1, 1)]
RangeWithoutMin == [op |-> "range", key |-> "attributes", max |-> PyInt(1)]

\* APImock.py's payloads json_str2, json_str3 and json_str
MockPayloads ==
    {Hard(Includes(PyTrue, 1, 5)), Hard(EqualsRule(PyTrue)), Soft("attractive", 0)}

Counts == 0 .. MaxCount

\* single hard rules
PrimitivePayloads ==
    {Hard(Includes(PyTrue, k, k)) : k \in Counts}
    \cup {Hard(IncludesMin(PyTrue, k)) : k \in Counts}
    \cup {Hard(IncludesMax(PyFalse, k)) : k \in Counts}
    \cup {Hard(RangeRule(1, MaxCount)), Hard(RegexRule("True")), Hard(RegexRule("x")),
          Hard(UnknownOp), UnknownKind, Hard(RangeWithoutMin)}

\* the children of the or combinators whose children are all supported
OrFirstChildren ==
    {Hard(Includes(PyTrue, k, k)) : k \in Counts} \cup {Hard(IncludesMin(PyFalse, MaxCount))}
OrSecondChildren ==
    {Hard(EqualsRule(PyInt(0))), Hard(RangeRule(MaxCount, MaxCount))}

OrPayloads ==
    {Logical(Or(<<c>>)) : c \in OrFirstChildren}
    \cup {Logical(Or(<<c, d>>)) : c \in OrFirstChildren, d \in OrSecondChildren}
    \cup {Hard(Or(<<Hard(Includes(PyTrue, 1, 1)), Hard(EqualsRule(PyInt(0)))>>))}

\* combinators over children the conditional compiler does not compile
OddPayloads ==
    {Logical(Or(<<Hard(Includes(PyTrue, 1, 1)), c>>)) :
        c \in {Soft("attractive", WeightDenominator), UnknownKind, Hard(UnknownOp),
               Hard(RegexRule("True")), Hard(RangeWithoutMin),
               Logical(And(<<Hard(Includes(PyTrue, 0, 0))>>)),
               Logical(Or(<<Hard(Includes(PyTrue, 0, 0))>>))}}
    \cup {Logical(Not(c)) :
        c \in {Hard(Includes(PyTrue, 1, 1)), Hard(RangeRule(1, 1)),
               Hard(EqualsRule(PyInt(1))), Soft("repulsive", WeightDenominator),
               UnknownKind, Logical(Not(Hard(Includes(PyTrue, 0, 0))))}}
    \cup {Logical(Or(<<>>)), Logical([op |-> "xor", rules |-> <<>>])}

AndPayloads ==
    {Logical(And(rules)) :
        rules \in {<<>>, <<Hard(Includes(PyTrue, 1, 1))>>,
                   <<Hard(Includes(PyTrue, 1, 1)), Hard(EqualsRule(PyInt(1)))>>,
                   <<Soft("attractive", WeightDenominator)>>, <<UnknownKind>>,
                   <<Hard(And(<<Hard(Includes(PyTrue, 1, 1))>>))>>}}

RulePayloads ==
    MockPayloads \cup PrimitivePayloads \cup OrPayloads \cup OddPayloads \cup AndPayloads

(***************************************************************************)
(* Initial states: the inputs of get_APIdata and the structural model.     *)
(***************************************************************************)
\* agent_data as set_agent_data builds it, from the attribute of each agent
AgentData(n, attributes) ==
    [a \in 0 .. (n - 1) |-> [id |-> PyInt(a), attributes |-> attributes[a]]]

\* every agent ranks the teams 0, 1, ... in that order
IdentityPreferences(n, t) == [a \in 0 .. (n - 1) |-> Range(t)]

\* the agent counts tried with t teams of capacity c: the consistent one, and
\* one agent short (the configuration error the caller must prevent)
AgentCounts(t, c) == {t * c - 1, t * c} \cap (1 .. MaxAgents)

InitScript ==
    /\ pc = "built"
    /\ model = StructuralModel
    /\ result = [hard_constraints |-> <<>>, soft_constraints |-> <<>>]
    /\ error = ""
    /\ status = ""
    /\ solution = <<>>

Init ==
    /\ NUM_TEAMS \in 1 .. MaxTeams
    /\ AGENTS_PER_TEAM \in 1 .. MaxCapacity
    /\ NUM_AGENTS \in AgentCounts(NUM_TEAMS, AGENTS_PER_TEAM)
    /\ \E attributes \in [0 .. (NUM_AGENTS - 1) -> {PyTrue, PyFalse}] :
           AGENT_DATA = AgentData(NUM_AGENTS, attributes)
    /\ PREFERENCES = IdentityPreferences(NUM_AGENTS, NUM_TEAMS)
    /\ HardConst \in RulePayloads
    /\ regret_weight = 1
    /\ InitScript

(***************************************************************************)
(* The script's steps after the model is built.                            *)
(***************************************************************************)
\* Solver.py:56; an exception ends the script with the model as mutated so far
ParseConstraints ==
    /\ pc = "built"
    /\ LET r == parse_constraints(HardConst, model)
       IN  /\ model' = r.model
           /\ error' = r.err
           /\ pc' = IF r.err = "" THEN "parsed" ELSE "raised"
           /\ result' = IF r.err = "" THEN r.result ELSE result
    /\ UNCHANGED <<NUM_TEAMS, NUM_AGENTS, AGENTS_PER_TEAM, AGENT_DATA, PREFERENCES,
                   HardConst, regret_weight, status, solution>>

\* Solver.py:57
AddSoftObjective ==
    /\ pc = "parsed"
    /\ model' = add_soft_constraints_to_objective(model, result.soft_constraints,
                                                  regret_weight)
    /\ pc' = "objective"
    /\ UNCHANGED <<NUM_TEAMS, NUM_AGENTS, AGENTS_PER_TEAM, AGENT_DATA, PREFERENCES,
                   HardConst, regret_weight, result, error, status, solution>>

\* Solver.py:60-62: the engine proves infeasibility, or returns an optimal
\* solution, or (time limit) an accepted one it has not proved optimal
Solve ==
    /\ pc = "objective"
    /\ LET acc == Accepted(model)
           opt == Optimal(model)
       IN  IF acc = {} THEN status' = "INFEASIBLE" /\ solution' = <<>>
           ELSE \E xv \in acc :
                    /\ solution' = xv
                    /\ status' \in (IF xv \in opt THEN {"OPTIMAL"} ELSE {"FEASIBLE"})
    /\ pc' = "solved"
    /\ UNCHANGED <<NUM_TEAMS, NUM_AGENTS, AGENTS_PER_TEAM, AGENT_DATA, PREFERENCES,
                   HardConst, regret_weight, model, result, error>>

Next == ParseConstraints \/ AddSoftObjective \/ Solve

Spec == Init /\ [][Next]_vars

(***************************************************************************)
(* What an assignment means, read off the values of x directly.            *)
(***************************************************************************)
\* the agents xv puts in team t
Members(xv, t) == {a \in Agents : xv[XVar(a, t)] = 1}
\* the teams xv puts agent a in
TeamsOfAgent(xv, a) == {t \in Teams : xv[XVar(a, t)] = 1}

\* the members of team t whose attribute at key is the value
Matching(xv, t, key, value) ==
    {a \in Members(xv, t) : PyEq(DictGet(AGENT_DATA[a], key, PyNone), value)}
\* the sum over team t of the attribute at key, coerced into [0, 1]
AttributeSum(xv, t, key) ==
    Cardinality({a \in Members(xv, t) :
                    get_numeric_value(DictGet(AGENT_DATA[a], key, PyInt(0))) = 1})

\* the bounds an includes rule asks for
LowerBound(rule) == IF "min" \in DOMAIN rule THEN rule.min.n ELSE 0
UpperBound(rule) == IF "max" \in DOMAIN rule THEN rule.max.n ELSE NUM_AGENTS

\* the predicate of a hard includes, range or equals rule on team t
RuleHolds(rule, xv, t) ==
    CASE rule.op = "includes" ->
             /\ LowerBound(rule) <= Cardinality(Matching(xv, t, rule.key, rule.value))
             /\ Cardinality(Matching(xv, t, rule.key, rule.value)) <= UpperBound(rule)
      [] rule.op = "range" ->
             /\ rule.min.n <= AttributeSum(xv, t, rule.key)
             /\ AttributeSum(xv, t, rule.key) <= rule.max.n
      [] rule.op = "equals" -> AttributeSum(xv, t, rule.key) = rule.value.n

ConfigurationConsistent == NUM_TEAMS * AGENTS_PER_TEAM = NUM_AGENTS

(***************************************************************************)
(* C1: with no rules compiled, the structural constraints have a solution  *)
(* whenever teamCount * capacity = agentCount, and every solution puts     *)
(* each agent in exactly one team and exactly capacity agents in each team.*)
(***************************************************************************)
C1_StructuralSolutions ==
    pc = "built" =>
        /\ ConfigurationConsistent => Accepted(model) # {}
        /\ \A xv \in Accepted(model) :
               /\ \A a \in Agents : Cardinality(TeamsOfAgent(xv, a)) = 1
               /\ \A t \in Teams : Cardinality(Members(xv, t)) = AGENTS_PER_TEAM

C1_Witness ==
    /\ pc = "built"
    /\ NUM_TEAMS = 2
    /\ AGENTS_PER_TEAM = 2
    /\ NUM_AGENTS = 4
    /\ Cardinality(Accepted(model)) = 6

(***************************************************************************)
(* C2: a top-level hard includes rule is applied to every team: for each   *)
(* team the model gets the two bounds on the count of matching agents,     *)
(* with 0 for an absent min and the agent count for an absent max, and     *)
(* every accepted assignment keeps each team's count within them (exactly  *)
(* k matching agents per team when min = max = k).                         *)
(***************************************************************************)
IsTopLevelIncludes ==
    /\ HardConst.kind = "hard"
    /\ HardConst.rule.op = "includes"
    /\ HardConst.rule.value.ty = "bool"

\* the constraints the compilation appended to the structural model
AddedConstraints == SubSeq(model.constraints, NUM_AGENTS + NUM_TEAMS + 1,
                           Len(model.constraints))

C2_IncludesEveryTeam ==
    (pc = "parsed" /\ IsTopLevelIncludes) =>
        LET rule == HardConst.rule
            matching(t) == {XVar(a, t) : a \in {b \in Agents :
                                AGENT_DATA[b].attributes = rule.value}}
        IN  /\ Len(AddedConstraints) = 2 * NUM_TEAMS
            /\ \A t \in Teams :
                   LET lo == AddedConstraints[2 * t + 1]
                       hi == AddedConstraints[2 * t + 2]
                   IN  /\ lo.rel = ">=" /\ lo.rhs = LowerBound(rule) /\ lo.enforce = <<>>
                       /\ hi.rel = "<=" /\ hi.rhs = UpperBound(rule) /\ hi.enforce = <<>>
                       /\ ConstraintVars(lo) = matching(t)
                       /\ ConstraintVars(hi) = matching(t)
            /\ \A xv \in Accepted(model) : \A t \in Teams :
                   LET n == Cardinality({a \in Members(xv, t) :
                                            AGENT_DATA[a].attributes = rule.value})
                   IN  LowerBound(rule) <= n /\ n <= UpperBound(rule)

C2_Witness ==
    /\ pc = "parsed"
    /\ HardConst = Hard(Includes(PyTrue, 1, 1))
    /\ NUM_TEAMS = 2
    /\ Accepted(model) # {}
    /\ Accepted(model) # Accepted(StructuralModel)

(***************************************************************************)
(* C3: for an or combinator whose children are all hard includes, range or *)
(* equals rules, the accepted assignments are exactly the structurally     *)
(* valid ones in which, for every team, some child's predicate holds.      *)
(***************************************************************************)
IsCombinator(op) ==
    /\ HardConst.kind \in {"hard", "logical"}
    /\ HardConst.rule.op = op

IsSupportedChild(c) ==
    /\ "kind" \in DOMAIN c
    /\ c.kind = "hard"
    /\ c.rule.op \in {"includes", "range", "equals"}
    /\ c.rule.op = "range" => {"min", "max"} \subseteq DOMAIN c.rule

IsSupportedOr ==
    /\ IsCombinator("or")
    /\ \A j \in 1 .. Len(HardConst.rule.rules) : IsSupportedChild(HardConst.rule.rules[j])

C3_OrIsDisjunction ==
    (pc = "parsed" /\ IsSupportedOr) =>
        LET children == HardConst.rule.rules
        IN  Accepted(model) =
                {xv \in Accepted(StructuralModel) :
                    \A t \in Teams : \E j \in 1 .. Len(children) :
                        RuleHolds(children[j].rule, xv, t)}

C3_Witness ==
    /\ pc = "parsed"
    /\ HardConst = Logical(Or(<<Hard(Includes(PyTrue, 2, 2)), Hard(EqualsRule(PyInt(0)))>>))
    /\ NUM_TEAMS = 2
    /\ \E xv \in Accepted(model) :
           /\ RuleHolds(HardConst.rule.rules[1].rule, xv, 0)
           /\ ~RuleHolds(HardConst.rule.rules[2].rule, xv, 0)
           /\ RuleHolds(HardConst.rule.rules[2].rule, xv, 1)
           /\ ~RuleHolds(HardConst.rule.rules[1].rule, xv, 1)
    /\ Accepted(model) # Accepted(StructuralModel)

(***************************************************************************)
(* C4: compiling an and combinator with a non-empty list of hard children  *)
(* completes without error, creates no indicator variable, and adds for    *)
(* each child exactly the constraints and audit descriptions that          *)
(* compiling that child alone would add.                                   *)
(***************************************************************************)
IsAndOfHardChildren ==
    /\ IsCombinator("and")
    /\ HardConst.rule.rules # <<>>
    /\ \A j \in 1 .. Len(HardConst.rule.rules) :
           /\ DictGet(HardConst.rule.rules[j], "kind", "None") = "hard"
           /\ HardConst.rule.rules[j].rule.op \in {"includes", "range", "equals", "regex"}

RECURSIVE ChildrenAlone(_, _, _)
\* each child compiled as a payload of its own, one after the other
ChildrenAlone(children, j, acc) ==
    IF j > Len(children) THEN acc
    ELSE LET r == parse_constraints(children[j], acc.model)
         IN  ChildrenAlone(children, j + 1,
                 [model |-> r.model,
                  hard_constraints |-> acc.hard_constraints \o r.result.hard_constraints,
                  err |-> IF acc.err # "" THEN acc.err ELSE r.err])

C4_AndCompilesEveryChild ==
    (pc \in {"parsed", "raised"} /\ IsAndOfHardChildren) =>
        LET alone == ChildrenAlone(HardConst.rule.rules, 1,
                         [model |-> StructuralModel, hard_constraints |-> <<>>, err |-> ""])
        IN  /\ pc = "parsed"
            /\ model.vars = StructuralModel.vars
            /\ model.constraints = alone.model.constraints
            /\ result.hard_constraints = alone.hard_constraints

(***************************************************************************)
(* C5: compiling a rule tree that holds a node of unknown kind or unknown  *)
(* op at any depth, also under an or or a not, ends in an error.           *)
(***************************************************************************)
RECURSIVE HasUnknownNode(_)
HasUnknownNode(c) ==
    LET kind == DictGet(c, "kind", "None")
        op == c.rule.op
        Children == IF op = "not" THEN <<c.rule.rule>> ELSE c.rule.rules
    IN  IF kind = "soft" THEN FALSE
        ELSE IF kind \notin {"hard", "logical"} THEN TRUE
        ELSE IF op \in {"and", "or", "not"}
             THEN \E j \in 1 .. Len(Children) : HasUnknownNode(Children[j])
        ELSE ~(kind = "hard" /\ op \in {"includes", "range", "equals", "regex"})

C5_UnknownNodeIsAnError ==
    (pc # "built" /\ HasUnknownNode(HardConst)) => pc = "raised"

(***************************************************************************)
(* C6: when compiling a rule tree raises, the model holds exactly the      *)
(* variables and constraints it held before the compilation began.         *)
(***************************************************************************)
C6_FailedCompilationKeepsNothing ==
    [][pc' = "raised" => model' = model]_vars

(***************************************************************************)
(* C7: a logical node that is a child of an or or a not is compiled:       *)
(* constraints for it are added on the indicator created for it, and an or *)
(* accepts an assignment only if, in every team, some child holds, a       *)
(* nested combinator counting by its own rule.                             *)
(***************************************************************************)
IsLogicalNode(c) ==
    \/ DictGet(c, "kind", "None") = "logical"
    \/ DictGet(c, "kind", "None") = "hard" /\ c.rule.op \in {"and", "or", "not"}

RECURSIVE NodeHolds(_, _, _)
\* what a tree of hard includes, range, equals rules and combinators asks of team t
NodeHolds(c, xv, t) ==
    LET rule == c.rule
    IN  CASE rule.op = "and" ->
                 \A j \in 1 .. Len(rule.rules) : NodeHolds(rule.rules[j], xv, t)
          [] rule.op = "or" ->
                 \E j \in 1 .. Len(rule.rules) : NodeHolds(rule.rules[j], xv, t)
          [] rule.op = "not" -> ~NodeHolds(rule.rule, xv, t)
          [] OTHER -> RuleHolds(rule, xv, t)

\* the children of the top-level or, or the child of the top-level not
CombinatorChildren ==
    IF HardConst.rule.op = "not" THEN <<HardConst.rule.rule>> ELSE HardConst.rule.rules

\* the indicator created for child j of the top-level combinator on team t
IndicatorOf(t, j) == NUM_AGENTS * NUM_TEAMS + t * Len(CombinatorChildren) + j

EnforcedOn(indicator) ==
    {i \in 1 .. Len(model.constraints) :
        /\ model.constraints[i].type = "linear"
        /\ \E k \in 1 .. Len(model.constraints[i].enforce) :
               model.constraints[i].enforce[k] = indicator}

HasLogicalChild ==
    /\ (IsCombinator("or") \/ IsCombinator("not"))
    /\ \E j \in 1 .. Len(CombinatorChildren) : IsLogicalNode(CombinatorChildren[j])
    /\ \A j \in 1 .. Len(CombinatorChildren) :
           IsLogicalNode(CombinatorChildren[j]) \/ IsSupportedChild(CombinatorChildren[j])

C7_NestedCombinatorIsCompiled ==
    (pc = "parsed" /\ HasLogicalChild) =>
        /\ \A t \in Teams : \A j \in 1 .. Len(CombinatorChildren) :
               IsLogicalNode(CombinatorChildren[j]) => EnforcedOn(IndicatorOf(t, j)) # {}
        /\ HardConst.rule.op = "or" =>
               \A xv \in Accepted(model) : \A t \in Teams :
                   \E j \in 1 .. Len(CombinatorChildren) :
                       NodeHolds(CombinatorChildren[j], xv, t)

(***************************************************************************)
(* C8: a soft rule that is a child of an or with another child, or the     *)
(* child of a not, has no effect: the accepted assignments, the objective  *)
(* and the deferred soft-constraint list are those of the same payload     *)
(* with the soft child left out (for a not: with the combinator left out). *)
(***************************************************************************)
IsSoftNode(c) == DictGet(c, "kind", "None") = "soft"

HasSoftChild ==
    \/ /\ IsCombinator("or")
       /\ \E j \in 1 .. Len(CombinatorChildren) : IsSoftNode(CombinatorChildren[j])
       /\ \E j \in 1 .. Len(CombinatorChildren) : ~IsSoftNode(CombinatorChildren[j])
    \/ /\ IsCombinator("not")
       /\ IsSoftNode(CombinatorChildren[1])

\* the compilation of the payload without its soft children
WithoutSoftChild ==
    IF HardConst.rule.op = "not"
    THEN [model |-> StructuralModel,
          result |-> [hard_constraints |-> <<>>, soft_constraints |-> <<>>], err |-> ""]
    ELSE parse_constraints(
             [HardConst EXCEPT !.rule.rules = SelectSeq(@, LAMBDA c : ~IsSoftNode(c))],
             StructuralModel)

C8_SoftChildHasNoEffect ==
    (pc \in {"parsed", "objective"} /\ HasSoftChild) =>
        LET other == WithoutSoftChild
            m2 == IF pc = "parsed" THEN other.model
                  ELSE add_soft_constraints_to_objective(other.model,
                           other.result.soft_constraints, regret_weight)
        IN  /\ result.soft_constraints = other.result.soft_constraints
            /\ Accepted(model) = Accepted(m2)
            /\ \A xv \in Accepted(model) :
                   ObjectiveValue(model, xv) = ObjectiveValue(m2, xv)

(***************************************************************************)
(* The soft-mode fixture: 6 agents, 2 teams of 3, one boolean attribute    *)
(* that 3 agents have and 3 have not, one soft rule on it.                 *)
(***************************************************************************)
\* the weights tried, in 1/WeightDenominator: 0.0005, 0.001 and 1.0
FixtureWeights == {5, 10, WeightDenominator}

FixturePayloads ==
    {Soft(mode, weight) : mode \in {"attractive", "repulsive"}, weight \in FixtureWeights}

\* every agent ranks the two teams one way or the other
InitFixture ==
    /\ NUM_TEAMS = 2
    /\ AGENTS_PER_TEAM = 3
    /\ NUM_AGENTS = 6
    /\ AGENT_DATA = AgentData(6, [a \in 0 .. 5 |-> IF a < 3 THEN PyTrue ELSE PyFalse])
    /\ PREFERENCES \in [0 .. 5 -> {<<0, 1>>, <<1, 0>>}]
    /\ HardConst \in FixturePayloads
    /\ regret_weight = 1
    /\ InitScript

SpecFixture == InitFixture /\ [][Next]_vars

(***************************************************************************)
(* C9: on the fixture, with one soft rule of weight > 0 on the attribute,  *)
(* no objective-maximizing assignment under mode attractive has a strictly *)
(* higher within-team dissimilarity (the sum over same-team pairs of the   *)
(* absolute attribute difference) than an objective-maximizing assignment  *)
(* under mode repulsive on the same input.                                 *)
(***************************************************************************)
RECURSIVE PairDifferences(_, _, _, _)
\* the sum of |difference| at key over the pairs of team t, from the k-th pair on
PairDifferences(xv, t, key, k) ==
    IF k > Len(AgentPairs) THEN 0
    ELSE LET a1 == AgentPairs[k][1]
             a2 == AgentPairs[k][2]
             val1 == get_numeric_value(DictGet(AGENT_DATA[a1], key, PyInt(0)))
             val2 == get_numeric_value(DictGet(AGENT_DATA[a2], key, PyInt(0)))
         IN  (IF {a1, a2} \subseteq Members(xv, t) THEN Abs(val1 - val2) ELSE 0)
             + PairDifferences(xv, t, key, k + 1)

RECURSIVE DissimilarityFrom(_, _, _)
DissimilarityFrom(xv, key, t) ==
    IF t >= NUM_TEAMS THEN 0
    ELSE PairDifferences(xv, t, key, 1) + DissimilarityFrom(xv, key, t + 1)

Dissimilarity(xv, key) == DissimilarityFrom(xv, key, 0)

\* the model with its objective when the same soft rule has the given mode
ModelUnderMode(mode) ==
    LET r == parse_constraints([HardConst EXCEPT !.mode = mode], StructuralModel)
    IN  add_soft_constraints_to_objective(r.model, r.result.soft_constraints,
                                          regret_weight)

IsFixture ==
    /\ NUM_TEAMS = 2 /\ AGENTS_PER_TEAM = 3 /\ NUM_AGENTS = 6
    /\ Cardinality({a \in Agents : AGENT_DATA[a].attributes = PyTrue}) = 3
    /\ Cardinality({a \in Agents : AGENT_DATA[a].attributes = PyFalse}) = 3

C9_AttractiveNotMoreDissimilar ==
    (/\ pc = "solved" /\ status = "OPTIMAL"
     /\ IsFixture
     /\ IsSoftNode(HardConst) /\ HardConst.mode = "attractive"
     /\ HardConst.weight > 0) =>
        \A rv \in Optimal(ModelUnderMode("repulsive")) :
            Dissimilarity(solution, HardConst.key) <= Dissimilarity(rv, HardConst.key)

(***************************************************************************)
(* Preference lists of any shape: the regret table's inputs.               *)
(***************************************************************************)
\* the lists of teams without repetition, the empty list and partial lists included
PreferenceLists ==
    UNION {{s \in [1 .. k -> Teams] : \A i, j \in 1 .. k : i # j => s[i] # s[j]} :
              k \in 0 .. NUM_TEAMS}

RegretPayloads == MockPayloads \cup {Soft("repulsive", WeightDenominator)}

\* agent 0 has any list; the others list every team in order or no team
InitRegret ==
    /\ NUM_TEAMS \in 1 .. MaxTeams
    /\ AGENTS_PER_TEAM \in 1 .. MaxCapacity
    /\ NUM_AGENTS = NUM_TEAMS * AGENTS_PER_TEAM
    /\ NUM_AGENTS <= MaxAgents
    /\ AGENT_DATA = AgentData(NUM_AGENTS,
           [a \in Agents |-> IF a % 2 = 0 THEN PyTrue ELSE PyFalse])
    /\ \E first \in PreferenceLists :
       \E others \in [Agents \ {0} -> {<<>>, Range(NUM_TEAMS)}] :
           PREFERENCES = [a \in Agents |-> IF a = 0 THEN first ELSE others[a]]
    /\ HardConst \in RegretPayloads
    /\ regret_weight \in (-1) .. MaxRegretWeight
    /\ InitScript

SpecRegret == InitRegret /\ [][Next]_vars

(***************************************************************************)
(* C10: for a non-negative regret weight and two feasible assignments that *)
(* differ only in that agent A is in team 0 in one and in team 1 in the    *)
(* other (the swap partner's rank contribution being equal), if A's list   *)
(* ranks team 0 above team 1 then the objective of the first is >= that of *)
(* the second; a team absent from A's list counts as rank teamCount.       *)
(* It holds when the pairwise soft terms of the two assignments are equal; *)
(* C10_AsStated is the statement without that condition.                   *)
(***************************************************************************)
\* the places of team t in the list of agent a
PlacesOf(a, t) == {i \in 1 .. Len(PREFERENCES[a]) : PREFERENCES[a][i] = t}

\* agent a lists t1, and lists t2 later or not at all
RanksAbove(a, t1, t2) ==
    \E i \in PlacesOf(a, t1) : \A j \in PlacesOf(a, t2) : i < j

\* the rank of t for a, an absent team counting as rank teamCount
RankOf(a, t) ==
    IF PlacesOf(a, t) = {} THEN NUM_TEAMS ELSE (CHOOSE i \in PlacesOf(a, t) : TRUE) - 1

\* xv has A in team 0 and B in team 1, yv has them exchanged, all others agree
DifferOnlyInSwap(xv, yv, A, B) ==
    /\ A # B
    /\ xv[XVar(A, 0)] = 1 /\ xv[XVar(B, 1)] = 1
    /\ yv[XVar(A, 1)] = 1 /\ yv[XVar(B, 0)] = 1
    /\ \A a \in Agents \ {A, B} : \A t \in Teams : xv[XVar(a, t)] = yv[XVar(a, t)]

\* the part of the objective that comes from the soft rules
PairwiseValue(m, xv) ==
    ExprValue(SubSeq(m.objective, NUM_AGENTS * NUM_TEAMS + 1, Len(m.objective)),
              Complete(m, xv, [v \in FreeVars(m) |-> 0]))

SwapCase(xv, yv, A, B) ==
    /\ DifferOnlyInSwap(xv, yv, A, B)
    /\ RankOf(B, 0) = RankOf(B, 1)
    /\ RanksAbove(A, 0, 1)

C10_RegretMonotone ==
    (pc = "objective" /\ regret_weight >= 0 /\ NUM_TEAMS >= 2) =>
        \A xv, yv \in Accepted(model) : \A A, B \in Agents :
            (SwapCase(xv, yv, A, B) /\ PairwiseValue(model, xv) = PairwiseValue(model, yv))
                => ObjectiveValue(model, xv) >= ObjectiveValue(model, yv)

C10_Witness ==
    /\ pc = "objective" /\ regret_weight >= 1 /\ NUM_TEAMS >= 2
    /\ \E xv, yv \in Accepted(model) : \E A, B \in Agents :
           /\ SwapCase(xv, yv, A, B)
           /\ PlacesOf(A, 1) = {}
           /\ PairwiseValue(model, xv) = PairwiseValue(model, yv)
           /\ ObjectiveValue(model, xv) > ObjectiveValue(model, yv)

C10_AsStated ==
    (pc = "objective" /\ regret_weight >= 0 /\ NUM_TEAMS >= 2) =>
        \A xv, yv \in Accepted(model) : \A A, B \in Agents :
            SwapCase(xv, yv, A, B)
                => ObjectiveValue(model, xv) >= ObjectiveValue(model, yv)

(***************************************************************************)
(* C11: after compiling not{rule} with a hard includes, range or equals    *)
(* inner rule, no assignment the compiled model accepts satisfies the      *)
(* inner rule's predicate for any team in scope.                           *)
(***************************************************************************)
IsNotOfSupportedRule ==
    /\ IsCombinator("not")
    /\ "rule" \in DOMAIN HardConst.rule
    /\ IsSupportedChild(HardConst.rule.rule)

C11_NotExcludesInnerRule ==
    (pc = "parsed" /\ IsNotOfSupportedRule) =>
        \A xv \in Accepted(model) : \A t \in Teams :
            ~RuleHolds(HardConst.rule.rule.rule, xv, t)

=============================================================================
